---- MODULE Spec2Model ----
(***************************************************************************)
(* A model of ts/input/tex/Configuration.ts: the package configurations    *)
(* (class Configuration), the registry of named configurations             *)
(* (namespace ConfigurationHandler) and the merged configuration of one    *)
(* parser (class ParserConfiguration).                                     *)
(***************************************************************************)
EXTENDS Integers, Sequences, FiniteSets, TLC

(***************************************************************************)
(* Bounds of the model.                                                    *)
(***************************************************************************)
\* the number of append calls (direct or through register) on one parser
MaxAppend == 3
\* the number of init() and config(jax) calls on one parser
MaxRun == 1
\* the length of the package list given to the constructor
MaxPackages == 3

(***************************************************************************)
(* JavaScript values.  A Processor is `Function | [Function, number]`, and *)
(* a hook that was not supplied is null.  One record shape holds all of    *)
(* them and the numbers, so that a value of any kind can sit where the     *)
(* code puts it.                                                           *)
(***************************************************************************)
Null == [kind |-> "null", fn |-> "", pri |-> 0]

Fun(f) == [kind |-> "function", fn |-> f, pri |-> 0]

Pair(f, p) == [kind |-> "array", fn |-> f, pri |-> p]

Num(n) == [kind |-> "number", fn |-> "", pri |-> n]

\* typeof v === 'function'
IsFunction(v) == v.kind = "function"

\* Array.isArray(v)
IsArray(v) == v.kind = "array"

\* the truth value of a Processor or null: only null is falsy
Truthy(v) == v.kind # "null"

\* ToNumber(v) is a number (not NaN) for a number and for null (0); a
\* function and an array holding a function convert to NaN
IsNumeric(v) == v.kind \in {"number", "null"}

ToNumber(v) == IF v.kind = "number" THEN v.pri ELSE 0

\* a < b of JavaScript: false as soon as one side converts to NaN
Less(a, b) == IsNumeric(a) /\ IsNumeric(b) /\ ToNumber(a) < ToNumber(b)

(***************************************************************************)
(* Objects used as maps are functions from their keys; Object.assign and   *)
(* defaultOptions merge them.                                              *)
(***************************************************************************)
EmptyMap == [k \in {} |-> 0]

\* a variant of Object.assign that keeps the values dst already has
ObjectAssign_keep(dst, src) ==
  [k \in DOMAIN dst \cup DOMAIN src |-> IF k \in DOMAIN dst THEN dst[k] ELSE src[k]]

\* Object.assign(dst, src): the keys of src overwrite those of dst
ObjectAssign(dst, src) ==
  [k \in DOMAIN dst \cup DOMAIN src |-> IF k \in DOMAIN src THEN src[k] ELSE dst[k]]

\* defaultOptions(dst, src) of util/Options: an option name that dst already
\* has keeps its value, the names new in src are added
defaultOptions(dst, src) ==
  [k \in DOMAIN dst \cup DOMAIN src |-> IF k \in DOMAIN dst THEN dst[k] ELSE src[k]]

(***************************************************************************)
(* PrioritizedList and FunctionList of util: a list of {item, priority}    *)
(* kept in ascending priority, an item added after those of equal          *)
(* priority.                                                               *)
(***************************************************************************)
DEFAULTPRIORITY == 5

\* the index after which add() puts an item of this priority: it walks
\* down from the end while priority < items[i].priority
AddIndex(list, priority) ==
  LET keep == {i \in 1..Len(list) : ~Less(priority, list[i].priority)}
  IN  IF keep = {} THEN 0 ELSE CHOOSE i \in keep : \A j \in keep : j <= i

InsertAt(list, i, x) == SubSeq(list, 1, i) \o <<x>> \o SubSeq(list, i + 1, Len(list))

\* PrioritizedList.add(item, priority)
ListAdd(list, item, priority) ==
  InsertAt(list, AddIndex(list, priority), [item |-> item, priority |-> priority])

(***************************************************************************)
(* class Configuration.                                                    *)
(***************************************************************************)
HandlerType == {"character", "delimiter", "macro", "environment"}

\* {character: [], delimiter: [], macro: [], environment: []}
EmptyHandler == [c \in HandlerType |-> <<>>]

\* config.field || dflt, for a field of the argument of create
OrElse(config, field, dflt) ==
  IF field \in DOMAIN config THEN config[field] ELSE dflt

\* config.priority || 5: a priority of 0 is falsy
PriorityOr5(config) ==
  IF "priority" \in DOMAIN config /\ config.priority # 0 THEN config.priority ELSE 5

\* if (hook || !Array.isArray(hook)) hook = [hook, priority]: the hook as the
\* constructor leaves it, a two-element array
WrapHook(hook, priority) ==
  IF Truthy(hook) \/ ~IsArray(hook)
  THEN <<hook, priority>>
  ELSE <<Fun(hook.fn), hook.pri>>

\* a variant of the constructor that keeps the handler argument as it is
NewConfiguration_rawHandler(name, handler, fallback, items, tags, options, nodes, preprocessors, postprocessors, init, config, priority) ==
  [name |-> name,
   handler |-> handler,
   fallback |-> fallback,
   items |-> items,
   tags |-> tags,
   options |-> options,
   nodes |-> nodes,
   preprocessors |-> preprocessors,
   postprocessors |-> postprocessors,
   init |-> IF Truthy(init) \/ ~IsArray(init) THEN <<init, priority>> ELSE <<Fun(init.fn), init.pri>>,
   config |-> IF Truthy(config) \/ ~IsArray(config) THEN <<config, priority>> ELSE <<Fun(config.fn), config.pri>>,
   priority |-> priority]

\* new Configuration(name, handler, ..., priority)
NewConfiguration(name, handler, fallback, items, tags, options, nodes, preprocessors, postprocessors, init, config, priority) ==
  [name |-> name,
   handler |-> ObjectAssign(EmptyHandler, handler),
   fallback |-> fallback,
   items |-> items,
   tags |-> tags,
   options |-> options,
   nodes |-> nodes,
   preprocessors |-> preprocessors,
   postprocessors |-> postprocessors,
   init |-> WrapHook(init, priority),
   config |-> WrapHook(config, priority),
   priority |-> priority]

\* the Configuration that Configuration.create(name, config) builds
CreateConfiguration(name, config) ==
  NewConfiguration(name,
                   OrElse(config, "handler", EmptyMap),
                   OrElse(config, "fallback", EmptyMap),
                   OrElse(config, "items", EmptyMap),
                   OrElse(config, "tags", EmptyMap),
                   OrElse(config, "options", EmptyMap),
                   OrElse(config, "nodes", EmptyMap),
                   OrElse(config, "preprocessors", <<>>),
                   OrElse(config, "postprocessors", <<>>),
                   OrElse(config, "init", Null),
                   OrElse(config, "config", Null),
                   PriorityOr5(config))

(***************************************************************************)
(* The packages that call Configuration.create: a name and the argument.   *)
(* "ext" is defined twice, by two packages that differ in every field.     *)
(***************************************************************************)
BaseConfig ==
  [handler |-> [macro |-> <<"m-base">>],
   options |-> [strict |-> FALSE]]

StrictExtConfig ==
  [handler |-> [macro |-> <<"m-strict">>],
   options |-> [strict |-> TRUE],
   init |-> Fun("setFlag"),
   priority |-> 10]

ExtConfig1 ==
  [handler |-> [macro |-> <<"x", "y">>, delimiter |-> <<"d">>],
   fallback |-> [macro |-> "fallback1"],
   items |-> [foo |-> "Foo1"],
   tags |-> [ams |-> "Ams1"],
   nodes |-> [node |-> "Node1"],
   options |-> [strict |-> TRUE, extra |-> TRUE],
   preprocessors |-> <<Fun("p1"), Pair("p2", 3)>>,
   postprocessors |-> <<Fun("q1")>>,
   init |-> Pair("init1", 3),
   config |-> Fun("ready1"),
   priority |-> 0]

ExtConfig2 ==
  [handler |-> [macro |-> <<"y", "z">>, character |-> <<"c">>],
   fallback |-> [macro |-> "fallback2", character |-> "fallbackC"],
   items |-> [foo |-> "Foo2", bar |-> "Bar2"],
   tags |-> [ams |-> "Ams2", none |-> "None2"],
   nodes |-> [node |-> "Node2", text |-> "Text2"],
   options |-> [extra |-> FALSE, other |-> TRUE],
   postprocessors |-> <<Pair("q2", 1)>>,
   init |-> Fun("init2"),
   config |-> Pair("ready2", 1),
   priority |-> 3]

Packages ==
  {<<"base", BaseConfig>>,
   <<"strict-ext", StrictExtConfig>>,
   <<"ext", ExtConfig1>>,
   <<"ext", ExtConfig2>>}

\* a hook given as a pair that holds no callable: [undefined, 3]
NoCallable == [kind |-> "array", fn |-> "", pri |-> 3]

\* packages loaded before any parser is constructed: one with a malformed
\* init hook and no other field, one with a negative priority
ExtraPackages ==
  {<<"bad", [init |-> NoCallable]>>,
   <<"neg", [handler |-> [environment |-> <<"e">>], priority |-> -1]>>}

AllPackages == Packages \cup ExtraPackages

\* the names a caller may ask for: those of the packages and one that no
\* package registers
Names == {p[1] : p \in Packages} \cup {"missing"}

\* the package lists given to new ParserConfiguration: a key is a name,
\* <<name>>, or a pair, <<name, priority>>
PackageLists ==
  {<< <<"base">>, <<"strict-ext">> >>,
   << <<"ext", 1>>, <<"missing">>, <<"base">> >>}

\* the priorities a key of a package list may give
ExplicitPriorities == {3}

\* the names a key of a package list may give a priority for
PrioritizedNames == {"strict-ext", "ext"}

\* every key: a name, or a name with a priority
PackageKeys ==
  {<<n>> : n \in Names} \cup
  {<<n, q>> : n \in PrioritizedNames, q \in ExplicitPriorities}

\* every package list of up to MaxPackages keys
RequestLists == UNION {[1..k -> PackageKeys] : k \in 0..MaxPackages}

(***************************************************************************)
(* The state: the registry, one ParserConfiguration with its private       *)
(* lists and its public fields, and the TeX input jax it configures.       *)
(***************************************************************************)
VARIABLES
  maps,            \* ConfigurationHandler.maps: name -> Configuration
  constructed,     \* whether new ParserConfiguration(packages) has run
  configurations,  \* ParserConfiguration.configurations
  requested,       \* the packages the constructor was given
  assigned,        \* whether the public fields below hold objects
  handler, fallback, items, tags, options, nodes,
  preprocessors, postprocessors,
  initMethod,      \* ParserConfiguration.initMethod
  configMethod,    \* ParserConfiguration.configMethod
  jax,             \* the filters and the parse options of the TeX jax
  calls,           \* the hooks that were invoked, in order
  appended,        \* the configurations that append merged, in order
  runs,            \* the number of init() and config(jax) calls
  last             \* the last operation, the steps it took, whether it threw

fields == <<handler, fallback, items, tags, options, nodes,
            preprocessors, postprocessors>>

chains == <<initMethod, configMethod>>

vars == <<maps, constructed, configurations, requested, assigned, fields,
          chains, jax, calls, appended, runs, last>>

\* an operation, the steps it completed, whether it threw, what it returned
Op(name, steps, threw, result) ==
  [op |-> name, steps |-> steps, threw |-> threw, result |-> result]

\* a variant of set that keeps the configuration a name already has
set_keepFirst(m, name, map) ==
  [n \in DOMAIN m \cup {name} |-> IF n \in DOMAIN m THEN m[n] ELSE map]

\* ConfigurationHandler.set(name, map)
set(m, name, map) ==
  [n \in DOMAIN m \cup {name} |-> IF n = name THEN map ELSE m[n]]

\* ConfigurationHandler.get(name): the configurations found, none or one
get(m, name) == IF name \in DOMAIN m THEN <<m[name]>> ELSE <<>>

\* ConfigurationHandler.keys()
keys(m) == DOMAIN m

\* the module is loaded: the registry is empty and no parser exists
Init ==
  /\ maps = EmptyMap
  /\ constructed = FALSE
  /\ configurations = <<>>
  /\ requested = <<>>
  /\ assigned = FALSE
  /\ handler = EmptyHandler
  /\ fallback = EmptyMap
  /\ items = EmptyMap
  /\ tags = EmptyMap
  /\ options = EmptyMap
  /\ nodes = EmptyMap
  /\ preprocessors = <<>>
  /\ postprocessors = <<>>
  /\ initMethod = <<>>
  /\ configMethod = <<>>
  /\ jax = [preFilters |-> <<>>, postFilters |-> <<>>]
  /\ calls = <<>>
  /\ appended = <<>>
  /\ runs = 0
  /\ last = Op("load", <<>>, FALSE, <<>>)

\* a variant of create that also hands the new configuration to a parser
\* that selected the one registered under the name before
Create_relink(name, config) ==
  /\ LET configuration == CreateConfiguration(name, config)
     IN  /\ maps' = set(maps, name, configuration)
         /\ configurations' =
              [i \in DOMAIN configurations |->
                 IF configurations[i].item.name = name
                 THEN [configurations[i] EXCEPT !.item = configuration]
                 ELSE configurations[i]]
         /\ last' = Op("create", <<name>>, FALSE, <<configuration>>)
  /\ UNCHANGED <<constructed, requested, assigned, fields, chains,
                 jax, calls, appended, runs>>

\* Configuration.create(name, config)
Create(name, config) ==
  /\ LET configuration == CreateConfiguration(name, config)
     IN  /\ maps' = set(maps, name, configuration)
         /\ last' = Op("create", <<name>>, FALSE, <<configuration>>)
  /\ UNCHANGED <<constructed, configurations, requested, assigned, fields, chains,
                 jax, calls, appended, runs>>

\* a variant of the loop that gives up at the first name not found
RECURSIVE Combine_stop(_, _, _)
Combine_stop(m, list, packages) ==
  IF packages = <<>> THEN list
  ELSE LET key == Head(packages)
           name == key[1]
           conf == get(m, name)
       IN  IF conf # <<>>
           THEN Combine_stop(m,
                             ListAdd(list, conf[1],
                                     Num(IF Len(key) = 1 THEN conf[1].priority ELSE key[2])),
                             Tail(packages))
           ELSE list

\* a variant of the loop that always takes the configuration's own priority
RECURSIVE Combine_ownPriority(_, _, _)
Combine_ownPriority(m, list, packages) ==
  IF packages = <<>> THEN list
  ELSE LET key == Head(packages)
           name == key[1]
           conf == get(m, name)
       IN  IF conf # <<>>
           THEN Combine_ownPriority(m,
                                    ListAdd(list, conf[1], Num(conf[1].priority)),
                                    Tail(packages))
           ELSE Combine_ownPriority(m, list, Tail(packages))

\* the loop of the constructor over packages[i..]
RECURSIVE Combine(_, _, _)
Combine(m, list, packages) ==
  IF packages = <<>> THEN list
  ELSE LET key == Head(packages)
           name == key[1]
           conf == get(m, name)
       IN  IF conf # <<>>
           THEN Combine(m,
                        ListAdd(list, conf[1],
                                Num(IF Len(key) = 1 THEN conf[1].priority ELSE key[2])),
                        Tail(packages))
           ELSE Combine(m, list, Tail(packages))

\* new ParserConfiguration(packages): the field initialisers and the
\* constructor; the public fields are declared and not assigned
Construct(packages) ==
  /\ ~constructed
  /\ constructed' = TRUE
  /\ configurations' = Combine(maps, <<>>, packages)
  /\ requested' = packages
  /\ initMethod' = <<>>
  /\ configMethod' = <<>>
  /\ assigned' = FALSE
  /\ last' = Op("new", <<>>, FALSE, <<>>)
  /\ UNCHANGED <<maps, fields, jax, calls, appended, runs>>

\* the owner of the parser configuration gives its public fields their
\* empty objects
AssignFields ==
  /\ constructed
  /\ ~assigned
  /\ assigned' = TRUE
  /\ handler' = EmptyHandler
  /\ fallback' = EmptyMap
  /\ items' = EmptyMap
  /\ tags' = EmptyMap
  /\ options' = EmptyMap
  /\ nodes' = EmptyMap
  /\ preprocessors' = <<>>
  /\ postprocessors' = <<>>
  /\ last' = Op("assign", <<>>, FALSE, <<>>)
  /\ UNCHANGED <<maps, constructed, configurations, requested, chains, jax, calls,
                 appended, runs>>

(***************************************************************************)
(* ParserConfiguration.append(config).                                     *)
(***************************************************************************)
\* a variant of unshift that adds at the end
unshift_atEnd(list, map) == list \o <<map>>

\* list.unshift(map)
unshift(list, map) == <<map>> \o list

\* list.push(x)
push(list, x) == Append(list, x)

\* a variant of the loop that puts the names in front as one block
UnshiftEach_block(list, names) == names \o list

\* for (const map of config.handler[key]) this.handler[key].unshift(map)
RECURSIVE UnshiftEach(_, _)
UnshiftEach(list, names) ==
  IF names = <<>> THEN list
  ELSE UnshiftEach(unshift(list, Head(names)), Tail(names))

\* for (let pre of config.preprocessors) this.preprocessors.push(pre)
RECURSIVE PushEach(_, _)
PushEach(list, processors) ==
  IF processors = <<>> THEN list
  ELSE PushEach(push(list, Head(processors)), Tail(processors))

\* a variant of the loop over the keys that starts each list afresh
AppendHandler_reset(h, config) ==
  [key \in DOMAIN h |->
     IF key \in DOMAIN config.handler
     THEN UnshiftEach(<<>>, config.handler[key])
     ELSE h[key]]

\* the loop over Object.keys(config.handler)
AppendHandler(h, config) ==
  [key \in DOMAIN h |->
     IF key \in DOMAIN config.handler
     THEN UnshiftEach(h[key], config.handler[key])
     ELSE h[key]]

\* if (config.init) this.initMethod.add(config.init[0], config.init[0]):
\* config.init is an array, which is truthy
AppendInit(list, config) == ListAdd(list, config.init[1], config.init[1])

\* if (config.config) this.configMethod.add(config.config[0], config.config[1])
AppendConfig(list, config) ==
  ListAdd(list, config.config[1], Num(config.config[2]))

\* a variant of the body of append that merges the options as it merges
\* the other maps, with Object.assign
Merge_assignOptions(config) ==
  /\ handler' = AppendHandler(handler, config)
  /\ fallback' = ObjectAssign(fallback, config.fallback)
  /\ items' = ObjectAssign(items, config.items)
  /\ tags' = ObjectAssign(tags, config.tags)
  /\ options' = ObjectAssign(options, config.options)
  /\ nodes' = ObjectAssign(nodes, config.nodes)
  /\ preprocessors' = PushEach(preprocessors, config.preprocessors)
  /\ postprocessors' = PushEach(postprocessors, config.postprocessors)
  /\ initMethod' = AppendInit(initMethod, config)
  /\ configMethod' = AppendConfig(configMethod, config)
  /\ appended' = Append(appended, config)

\* the body of append on a parser configuration whose fields hold objects
Merge(config) ==
  /\ handler' = AppendHandler(handler, config)
  /\ fallback' = ObjectAssign(fallback, config.fallback)
  /\ items' = ObjectAssign(items, config.items)
  /\ tags' = ObjectAssign(tags, config.tags)
  /\ options' = defaultOptions(options, config.options)
  /\ nodes' = ObjectAssign(nodes, config.nodes)
  /\ preprocessors' = PushEach(preprocessors, config.preprocessors)
  /\ postprocessors' = PushEach(postprocessors, config.postprocessors)
  /\ initMethod' = AppendInit(initMethod, config)
  /\ configMethod' = AppendConfig(configMethod, config)
  /\ appended' = Append(appended, config)

\* a variant of append that prepends to the handler lists of the
\* configuration it was given, so that the registered configuration changes
AppendOp_alias(config) ==
  /\ constructed
  /\ Len(appended) < MaxAppend
  /\ IF assigned
     THEN /\ Merge(config)
          /\ maps' = [maps EXCEPT ![config.name].handler = AppendHandler(handler, config)]
          /\ last' = Op("append", <<"append">>, FALSE, <<>>)
     ELSE /\ last' = Op("append", <<>>, TRUE, <<>>)
          /\ UNCHANGED <<maps, fields, chains, appended>>
  /\ UNCHANGED <<constructed, configurations, requested, assigned, jax, calls, runs>>

\* append(config).  On fields that hold no object the first statement that
\* reads one, this.handler[key] or Object.assign(this.fallback, ...), throws
\* a TypeError before anything is changed.
AppendOp(config) ==
  /\ constructed
  /\ Len(appended) < MaxAppend
  /\ IF assigned
     THEN /\ Merge(config)
          /\ last' = Op("append", <<"append">>, FALSE, <<>>)
     ELSE /\ last' = Op("append", <<>>, TRUE, <<>>)
          /\ UNCHANGED <<fields, chains, appended>>
  /\ UNCHANGED <<maps, constructed, configurations, requested, assigned, jax, calls, runs>>

\* FunctionList.execute: the functions called, in the order of the list, up
\* to the first item that is no function
RECURSIVE Called(_)
Called(list) ==
  IF list = <<>> \/ ~IsFunction(Head(list).item) THEN <<>>
  ELSE <<Head(list).item.fn>> \o Called(Tail(list))

\* whether execute throws: calling an item that is no function does
ExecuteThrows(list) == \E i \in 1..Len(list) : ~IsFunction(list[i].item)

\* a variant of register that runs the whole init chain after the append
Register_rerun(config) ==
  /\ constructed
  /\ Len(appended) < MaxAppend
  /\ IF assigned
     THEN /\ Merge(config)
          /\ calls' = calls \o Called(initMethod')
          /\ last' = Op("register", <<"append", "init">>, ExecuteThrows(initMethod'), <<>>)
     ELSE /\ last' = Op("register", <<>>, TRUE, <<>>)
          /\ UNCHANGED <<fields, chains, appended, calls>>
  /\ UNCHANGED <<maps, constructed, configurations, requested, assigned, jax, runs>>

\* register(config, jax): append, then config.init(this).  config.init is
\* the array the constructor of Configuration made of it, and calling an
\* array throws a TypeError, so that the statements after it never run.
Register(config) ==
  /\ constructed
  /\ Len(appended) < MaxAppend
  /\ IF assigned
     THEN /\ Merge(config)
          /\ last' = Op("register", <<"append">>, TRUE, <<>>)
     ELSE /\ last' = Op("register", <<>>, TRUE, <<>>)
          /\ UNCHANGED <<fields, chains, appended>>
  /\ UNCHANGED <<maps, constructed, configurations, requested, assigned, jax, calls, runs>>

(***************************************************************************)
(* init() and config(jax).                                                 *)
(***************************************************************************)
\* init(): this.initMethod.execute(this)
InitOp ==
  /\ constructed
  /\ runs < MaxRun
  /\ runs' = runs + 1
  /\ calls' = calls \o Called(initMethod)
  /\ last' = Op("init", <<>>, ExecuteThrows(initMethod), <<>>)
  /\ UNCHANGED <<maps, constructed, configurations, requested, assigned, fields, chains,
                 jax, appended>>

\* a variant of the installation that gives every processor the default
\* priority
AddFilter_noPriority(filters, pre) ==
  ListAdd(filters, IF IsFunction(pre) THEN pre ELSE Fun(pre.fn), Num(DEFAULTPRIORITY))

\* typeof pre === 'function' ? filters.add(pre) : filters.add(pre[0], pre[1])
AddFilter(filters, pre) ==
  IF IsFunction(pre)
  THEN ListAdd(filters, pre, Num(DEFAULTPRIORITY))
  ELSE ListAdd(filters, Fun(pre.fn), Num(pre.pri))

RECURSIVE AddFilters(_, _)
AddFilters(filters, processors) ==
  IF processors = <<>> THEN filters
  ELSE AddFilters(AddFilter(filters, Head(processors)), Tail(processors))

\* config(jax): the ready chain, then the preprocessors, then the
\* postprocessors; iterating a field that holds no object throws
ConfigOp ==
  /\ constructed
  /\ runs < MaxRun
  /\ runs' = runs + 1
  /\ calls' = calls \o Called(configMethod)
  /\ IF ExecuteThrows(configMethod)
     THEN /\ last' = Op("config", <<>>, TRUE, <<>>)
          /\ UNCHANGED jax
     ELSE IF ~assigned
     THEN /\ last' = Op("config", <<"execute">>, TRUE, <<>>)
          /\ UNCHANGED jax
     ELSE /\ last' = Op("config", <<"execute", "pre", "post">>, FALSE, <<>>)
          /\ jax' = [jax EXCEPT
                       !.preFilters = AddFilters(@, preprocessors),
                       !.postFilters = AddFilters(@, postprocessors)]
  /\ UNCHANGED <<maps, constructed, configurations, requested, assigned, fields, chains,
                 appended>>

Next ==
  \/ \E p \in Packages : Create(p[1], p[2])
  \/ \E l \in PackageLists : Construct(l)
  \/ AssignFields
  \/ \E n \in keys(maps) : AppendOp(maps[n])
  \/ \E n \in keys(maps) : Register(maps[n])
  \/ InitOp
  \/ ConfigOp

Spec == Init /\ [][Next]_vars

(***************************************************************************)
(* The load phase followed by the construction of the parser               *)
(* configuration: the packages register their configurations, then the     *)
(* constructor is given any package list.                                  *)
(***************************************************************************)
Load == ~constructed /\ \E p \in AllPackages : Create(p[1], p[2])

ConstructAny == \E l \in RequestLists : Construct(l)

NextNew == Load \/ ConstructAny

SpecNew == Init /\ [][NextNew]_vars

(***************************************************************************)
(* Properties.                                                             *)
(***************************************************************************)
RECURSIVE Reverse(_)
Reverse(s) == IF s = <<>> THEN <<>> ELSE Append(Reverse(Tail(s)), Head(s))

Range(s) == {s[i] : i \in DOMAIN s}

\* the number of times x occurs in s
Count(s, x) == Cardinality({i \in DOMAIN s : s[i] = x})

\* s and t hold the same names, each as often
SameNames(s, t) ==
  /\ Len(s) = Len(t)
  /\ \A x \in Range(s) \cup Range(t) : Count(s, x) = Count(t, x)

\* this step is an append (of AppendOp or of Register) that merged
MergedNow == Len(appended') = Len(appended) + 1

\* the configuration that the last merging append was given
LastAppended == appended[Len(appended)]

C2_LaterPrecedes ==
  (assigned /\ Len(appended) >= 2) =>
    LET E2 == appended[Len(appended)]
        E1 == appended[Len(appended) - 1]
    IN  \A c \in HandlerType :
          LET n2 == Len(E2.handler[c])
              n1 == Len(E1.handler[c])
          IN  /\ Len(handler[c]) >= n2 + n1
              /\ SameNames(SubSeq(handler[c], 1, n2), E2.handler[c])
              /\ SameNames(SubSeq(handler[c], n2 + 1, n2 + n1), E1.handler[c])

\* base ([m-base]) and then strict-ext ([m-strict]) were appended
C2_Witness ==
  /\ Len(appended) = 2
  /\ appended[1].name = "base"
  /\ appended[2].name = "strict-ext"
  /\ handler["macro"] = <<"m-strict", "m-base">>

\* the four maps that append merges with Object.assign
BehaviourMaps ==
  [fallback |-> fallback, items |-> items, tags |-> tags, nodes |-> nodes]

\* the appended configurations that define key k of map f
Defining(f, k) == {i \in DOMAIN appended : k \in DOMAIN appended[i][f]}

\* the most recently appended of them
LastDefining(f, k) ==
  CHOOSE i \in Defining(f, k) : \A j \in Defining(f, k) : j <= i

\* C3: after any sequence of appends, each of the fallback, stack-item, tag
\* and node-factory maps holds, for every key, the value given by the most
\* recently appended configuration that defines the key, and holds the keys
\* that some appended configuration defines.
C3_LastWriterWins ==
  assigned =>
    \A f \in DOMAIN BehaviourMaps :
      /\ DOMAIN BehaviourMaps[f] =
           UNION {DOMAIN appended[i][f] : i \in DOMAIN appended}
      /\ \A k \in DOMAIN BehaviourMaps[f] :
           BehaviourMaps[f][k] = appended[LastDefining(f, k)][f][k]

\* two appended configurations define items.foo, tags.ams and nodes.node
\* with different values, and the later one defines keys the first has not
C3_Witness ==
  /\ Len(appended) = 2
  /\ appended[1].name = "ext"
  /\ appended[2].name = "ext"
  /\ appended[1].items = [foo |-> "Foo1"]
  /\ appended[2].items = [foo |-> "Foo2", bar |-> "Bar2"]
  /\ items = [foo |-> "Foo2", bar |-> "Bar2"]
  /\ fallback = [macro |-> "fallback2", character |-> "fallbackC"]

\* C4: an option name that the option tree already holds keeps its value
\* across an append, and the option names new in the appended configuration
\* are added with its values.
C4_FirstDefaultStays ==
  [][MergedNow =>
       /\ DOMAIN options' = DOMAIN options \cup DOMAIN LastAppended'.options
       /\ \A k \in DOMAIN options : options'[k] = options[k]
       /\ \A k \in DOMAIN options' \ DOMAIN options :
            options'[k] = LastAppended'.options[k]]_vars

\* base (strict = false) and then strict-ext (strict = true) were appended
C4_Witness ==
  /\ Len(appended) >= 2
  /\ appended[1].options = [strict |-> FALSE]
  /\ "strict" \in DOMAIN LastAppended.options
  /\ LastAppended.options["strict"] = TRUE
  /\ options["strict"] = FALSE

\* C5: append(E) adds an init hook that E has to the init chain as the pair
\* (callable, priority) of E.init, and a ready hook that E has to the ready
\* chain as the pair (callable, priority) of E.config.
C5_HooksAdded ==
  [][MergedNow =>
       LET E == LastAppended'
       IN  /\ Truthy(E.init[1]) =>
                initMethod' = ListAdd(initMethod, E.init[1], Num(E.init[2]))
           /\ Truthy(E.config[1]) =>
                configMethod' = ListAdd(configMethod, E.config[1], Num(E.config[2]))]_vars

\* the names of the configurations selected by the constructor, in order
Selected == [i \in DOMAIN configurations |-> configurations[i].item.name]

\* C6: constructing a parser configuration folds the found configurations,
\* in the order of the priority list, with append into an empty
\* configuration and then runs the init chain; from base and strict-ext it
\* gives the macro list [m-strict, m-base], strict = false, and the flag set.
C6_ConstructFolds ==
  (last.op = "new" /\ Selected = <<"base", "strict-ext">>) =>
    /\ assigned
    /\ appended = [i \in DOMAIN configurations |-> configurations[i].item]
    /\ handler["macro"] = <<"m-strict", "m-base">>
    /\ options = [strict |-> FALSE]
    /\ "setFlag" \in Range(calls)

\* C7: register(E, jax) appends E, then invokes E's init hook, then rebuilds
\* the handlers of the parse options, then invokes E's ready hook, and
\* completes without error.
C7_RegisterCompletes ==
  (last.op = "register" /\ assigned) =>
    /\ last.steps = <<"append", "init", "handlers", "config">>
    /\ ~last.threw

\* the callables of the hooks of configuration E
HooksOf(E) == {E.init[1].fn, E.config[1].fn}

\* C8: a register call invokes no hook of a configuration merged before it:
\* the hooks it invokes are hooks of the configuration being registered.
C8_NoHookAgain ==
  [][last'.op = "register" =>
       /\ Len(calls') >= Len(calls)
       /\ SubSeq(calls', 1, Len(calls)) = calls
       /\ \A i \in (Len(calls) + 1)..Len(calls') :
            MergedNow /\ calls'[i] \in HooksOf(LastAppended')]_vars

\* a configuration is registered after the init hook of one merged before
\* it was invoked
C8_Witness ==
  /\ last.op = "register"
  /\ last.steps = <<"append">>
  /\ Len(appended) >= 2
  /\ calls # <<>>
  /\ \E i \in 1..(Len(appended) - 1) :
       /\ calls[1] \in HooksOf(appended[i])
       /\ calls[1] \notin HooksOf(LastAppended)

\* C9: an append never reorders or removes the names already merged: for
\* every category the list before it is a suffix of the list after it, and
\* the names in front of that suffix are those of the appended configuration.
C9_PriorListKept ==
  [][MergedNow =>
       \A c \in HandlerType :
         LET added == Len(handler'[c]) - Len(handler[c])
         IN  /\ added >= 0
             /\ SubSeq(handler'[c], added + 1, Len(handler'[c])) = handler[c]
             /\ SameNames(SubSeq(handler'[c], 1, added),
                          LastAppended'.handler[c])]_vars

\* a third configuration was appended to the lists of two merged before it
C9_Witness ==
  /\ last.op = "append"
  /\ Len(appended) = 3
  /\ \A i \in 1..3 : appended[i].handler["macro"] # <<>>
  /\ appended[3] # appended[2]
  /\ appended[2] # appended[1]
  /\ Len(handler["macro"]) >= 4

\* C10: looking up a name gives the configuration registered last under it
\* and nothing for a name never registered: the registry starts empty, a
\* create(name, ...) makes the created configuration the one found under
\* name and changes no other name, and no other operation changes a lookup.
C10_Lookup ==
  /\ \A n \in Names : get(maps, n) = <<>>
  /\ [](get(maps, "missing") = <<>>)
  /\ [][IF last'.op = "create"
        THEN LET name == last'.steps[1]
             IN  /\ get(maps', name) = last'.result
                 /\ \A n \in Names \ {name} : get(maps', n) = get(maps, n)
        ELSE \A n \in Names : get(maps', n) = get(maps, n)]_vars

\* "ext" was registered again with another configuration than the one a
\* parser has merged, and lookup finds the new one
C10_Witness ==
  /\ last.op = "create"
  /\ last.steps = <<"ext">>
  /\ get(maps, "ext") = last.result
  /\ get(maps, "missing") = <<>>
  /\ \E i \in DOMAIN appended :
       appended[i].name = "ext" /\ <<appended[i]>> # get(maps, "ext")

\* C11: registering a configuration under a name leaves a parser
\* configuration constructed before it as it is: its selected
\* configurations, handler lists, maps, options, processors and hook chains
\* do not change.
C11_ParserUnaffected ==
  [][(last'.op = "create" /\ constructed) =>
       UNCHANGED <<configurations, fields, chains, appended>>]_vars

\* "ext" is registered again after a parser selected and merged the
\* configuration registered under "ext" before
C11_Witness ==
  /\ last.op = "create"
  /\ last.steps = <<"ext">>
  /\ constructed
  /\ \E i \in DOMAIN appended :
       appended[i].name = "ext" /\ appended[i] # maps["ext"]
  /\ \E i \in DOMAIN configurations :
       configurations[i].item.name = "ext" /\ configurations[i].item # maps["ext"]

\* the keys of a package list whose names are registered
RECURSIVE Found(_, _)
Found(m, packages) ==
  IF packages = <<>> THEN <<>>
  ELSE IF Head(packages)[1] \in keys(m)
       THEN <<Head(packages)>> \o Found(m, Tail(packages))
       ELSE Found(m, Tail(packages))

\* C12: the constructor skips a requested name that is not registered,
\* without an error: it selects what it selects from the package list with
\* the names not found removed, one configuration for each key left.
C12_MissingSkipped ==
  last.op = "new" =>
    /\ ~last.threw
    /\ Len(configurations) = Len(Found(maps, requested))
    /\ configurations = Combine(maps, <<>>, Found(maps, requested))

\* a package list with a name not found between two that are found
C12_Witness ==
  /\ last.op = "new"
  /\ Len(requested) = 3
  /\ requested[2][1] \notin keys(maps)
  /\ Len(configurations) = 2

\* the entry the constructor adds for key k of a package list
Selection(m, k) ==
  [item |-> m[k[1]],
   priority |-> Num(IF Len(k) = 2 THEN k[2] ELSE m[k[1]].priority)]

\* the place of entry i among the entries put in ascending priority, those
\* of equal priority in the order they have in entries
Place(entries, i) ==
  1 + Cardinality({j \in DOMAIN entries :
                     \/ entries[j].priority.pri < entries[i].priority.pri
                     \/ /\ entries[j].priority.pri = entries[i].priority.pri
                        /\ j < i})

\* list holds the entries, each once, in non-decreasing priority, and those
\* of equal priority in the order they have in entries
StablyOrdered(entries, list) ==
  /\ Len(list) = Len(entries)
  /\ \A i \in 1..(Len(list) - 1) : list[i].priority.pri <= list[i + 1].priority.pri
  /\ \A i \in DOMAIN entries : list[Place(entries, i)] = entries[i]

\* C13: the constructor selects each found configuration with the priority
\* of its key when the key gives one and with the configuration's own
\* priority otherwise; the selected configurations are in non-decreasing
\* priority, and those of equal priority in the order of the package list.
C13_PriorityOrder ==
  last.op = "new" =>
    LET found == Found(maps, requested)
    IN  StablyOrdered([i \in DOMAIN found |-> Selection(maps, found[i])],
                      configurations)

\* a key with an explicit priority moved its configuration in front of one
\* requested before it, and two configurations of equal priority kept the
\* order of the package list
C13_Witness ==
  /\ last.op = "new"
  /\ requested = << <<"base">>, <<"ext">>, <<"strict-ext", 3>> >>
  /\ Len(configurations) = 3
  /\ configurations[1].item.name = "strict-ext"
  /\ configurations[2].item.name = "base"
  /\ configurations[3].item.name = "ext"
  /\ configurations[2].priority = configurations[3].priority

\* the processors of the given field of the appended configurations, in the
\* order of the appends and, within one configuration, in its own order
RECURSIVE Accumulated(_, _)
Accumulated(entries, field) ==
  IF entries = <<>> THEN <<>>
  ELSE Head(entries)[field] \o Accumulated(Tail(entries), field)

\* the callable of a processor and the priority it asks for
CallableOf(pre) == IF IsFunction(pre) THEN pre ELSE Fun(pre.fn)

PriorityOf(pre) == IF IsFunction(pre) THEN DEFAULTPRIORITY ELSE pre.pri

\* filters holds the callables of the processors, and two processors that
\* ask for the same priority are in the order they have in processors
InstalledInOrder(processors, filters) ==
  /\ Len(filters) = Len(processors)
  /\ \A i, j \in DOMAIN processors :
       (i < j /\ PriorityOf(processors[i]) = PriorityOf(processors[j])) =>
         \E a, b \in DOMAIN filters :
           /\ a < b
           /\ filters[a].item = CallableOf(processors[i])
           /\ filters[b].item = CallableOf(processors[j])

\* C14: the preprocessor and postprocessor sequences are those of the
\* appended configurations, one after the other in the order of the appends
\* and each in its own order, and config(jax) installs them into the
\* filters of the engine in that order.
C14_ProcessorsInstalled ==
  /\ assigned =>
       /\ preprocessors = Accumulated(appended, "preprocessors")
       /\ postprocessors = Accumulated(appended, "postprocessors")
  /\ (last.op = "config" /\ assigned) =>
       /\ ~last.threw
       /\ InstalledInOrder(preprocessors, jax.preFilters)
       /\ InstalledInOrder(postprocessors, jax.postFilters)

\* the part of C14 that is about append alone
C14_AppendOrder ==
  assigned =>
    /\ preprocessors = Accumulated(appended, "preprocessors")
    /\ postprocessors = Accumulated(appended, "postprocessors")

\* the entries that installing the processors puts into a filter chain
Installs(processors) ==
  [i \in DOMAIN processors |->
     [item |-> CallableOf(processors[i]),
      priority |-> Num(PriorityOf(processors[i]))]]

\* s and t hold the same elements the same number of times
SameBag(s, t) ==
  /\ Len(s) = Len(t)
  /\ \A x \in Range(s) \cup Range(t) : Count(s, x) = Count(t, x)

\* this step is a call of config(jax)
ConfigNow == runs' = runs + 1 /\ last'.op = "config"

\* C15: config(jax) executes the ready chain first and installs the
\* processors only after the whole chain has run, the preprocessors into
\* the pre-filters and the postprocessors into the post-filters; a processor
\* paired with a priority is installed with that priority and an unpaired
\* one with the default priority of the filter chain.
C15_ReadyThenInstall ==
  [][ConfigNow =>
       /\ jax' # jax =>
            /\ last'.steps = <<"execute", "pre", "post">>
            /\ calls' = calls \o [i \in DOMAIN configMethod |-> configMethod[i].item.fn]
       /\ last'.threw => jax' = jax
       /\ ~last'.threw =>
            /\ SameBag(jax'.preFilters, jax.preFilters \o Installs(preprocessors))
            /\ SameBag(jax'.postFilters, jax.postFilters \o Installs(postprocessors))]_vars

\* config(jax) ran the ready hook of ext and then installed its processors:
\* p2 with its priority 3 in front of p1 with the default priority
C15_Witness ==
  /\ last.op = "config"
  /\ ~last.threw
  /\ calls = <<"ready1">>
  /\ jax.preFilters = <<[item |-> Fun("p2"), priority |-> Num(3)],
                        [item |-> Fun("p1"), priority |-> Num(DEFAULTPRIORITY)]>>
  /\ jax.postFilters = <<[item |-> Fun("q1"), priority |-> Num(DEFAULTPRIORITY)]>>

\* the packages that Configuration.create turns into configuration e
SourcesOf(e) == {p \in AllPackages : CreateConfiguration(p[1], p[2]) = e}

\* the hook of a configuration as C16 has it: absent when the package gives
\* none, (f, priority) for a function f, and the pair itself for a pair
ExpectedHook(cfg, field, priority) ==
  IF field \notin DOMAIN cfg THEN <<>>
  ELSE IF IsFunction(cfg[field]) THEN <<cfg[field], priority>>
  ELSE <<Fun(cfg[field].fn), cfg[field].pri>>

\* the configurations among entries whose package gives the hook
Supplying(entries, field) ==
  {i \in DOMAIN entries : \E p \in SourcesOf(entries[i]) : field \in DOMAIN p[2]}

\* C16: the init hook and the ready hook of a created configuration are
\* absent when none was supplied, (f, priority of the configuration) for a
\* supplied function f and (f, p) for a supplied pair [f, p]; appending a
\* configuration with an absent hook adds nothing to the chain of that hook.
C16_HookShape ==
  /\ \A n \in keys(maps) : \A p \in SourcesOf(maps[n]) :
       /\ maps[n].init = ExpectedHook(p[2], "init", maps[n].priority)
       /\ maps[n].config = ExpectedHook(p[2], "config", maps[n].priority)
  /\ Len(initMethod) = Cardinality(Supplying(appended, "init"))
  /\ Len(configMethod) = Cardinality(Supplying(appended, "config"))

\* C17: no operation but create changes the registry, the selected
\* configurations are the registered ones as they are, and no operation
\* after the construction changes a selected or an appended configuration.
C17_EntriesFrozen ==
  [][last'.op # "create" =>
       /\ maps' = maps
       /\ IF last'.op = "new" /\ ~constructed
          THEN \A i \in DOMAIN configurations' :
                 configurations'[i].item = maps[configurations'[i].item.name]
          ELSE configurations' = configurations
       /\ Len(appended') >= Len(appended)
       /\ SubSeq(appended', 1, Len(appended)) = appended
       /\ MergedNow => LastAppended' = maps[LastAppended'.name]]_vars

\* two configurations were merged: the parser's macro list holds the names
\* of both while the one merged last is still the registered one and has
\* the macro list it was created with
C17_Witness ==
  /\ last.op \in {"append", "register"}
  /\ Len(appended) = 2
  /\ appended[1].name # appended[2].name
  /\ LastAppended = maps[LastAppended.name]
  /\ Len(handler["macro"]) > Len(LastAppended.handler["macro"])
  /\ LastAppended \in {CreateConfiguration(p[1], p[2]) : p \in Packages}

\* C18: the handler of a created configuration has the four categories;
\* a category the package supplies has the supplied list, any other is
\* empty.
C18_FourCategories ==
  \A n \in keys(maps) : \A p \in SourcesOf(maps[n]) :
    /\ DOMAIN maps[n].handler = HandlerType
    /\ \A c \in HandlerType :
         maps[n].handler[c] =
           IF "handler" \in DOMAIN p[2] /\ c \in DOMAIN p[2].handler
           THEN p[2].handler[c]
           ELSE <<>>

\* registered are a configuration of a package that gives no handler at all
\* and one of a package that gives the macro list only
C18_Witness ==
  /\ {"bad", "base"} \subseteq keys(maps)
  /\ SourcesOf(maps["bad"]) # {}
  /\ maps["bad"].handler = EmptyHandler
  /\ maps["base"].handler["macro"] = <<"m-base">>
  /\ maps["base"].handler["character"] = <<>>

\* C19: creating a configuration from a package whose hook is a pair
\* without a callable fails: the call throws, returns no configuration and
\* leaves the registry as it was, so that the name is never registered.
C19_MalformedRejected ==
  /\ "bad" \notin keys(maps)
  /\ (last.op = "create" /\ last.steps = <<"bad">>) =>
       /\ last.threw
       /\ last.result = <<>>

\* C20: the priority of a created configuration is the priority the package
\* gives, whatever number it is, and 5 when the package gives none.
C20_PriorityKept ==
  \A n \in keys(maps) : \A p \in SourcesOf(maps[n]) :
    maps[n].priority =
      IF "priority" \in DOMAIN p[2] THEN p[2].priority ELSE DEFAULTPRIORITY

\* the part of C20 that holds: every priority but 0 is kept, the negative
\* one too, and a package that gives none gets 5
C20_NonZeroKept ==
  \A n \in keys(maps) : \A p \in SourcesOf(maps[n]) :
    maps[n].priority =
      IF "priority" \in DOMAIN p[2] /\ p[2].priority # 0
      THEN p[2].priority
      ELSE DEFAULTPRIORITY

====
